---- MODULE Spec2Model ----
(***************************************************************************)
(* The decision wizard of frontend/decision-tool/src/App.tsx: the React    *)
(* state of the App component, one action per event handler and per        *)
(* arrival of an HTTP response, and the two computations of the wizard,    *)
(* the pairwise criterion prioritizer and the weighted aggregator.         *)
(*                                                                         *)
(* Numbers.  Criterion weights are stored multiplied by WScale, so that    *)
(* 100 - index * (100 / (length - 1)) is exact; a quotient (the average    *)
(* and the weighted score of a result) is the pair [num, den] of its       *)
(* numerator and denominator, den = 0 standing for JavaScript's NaN and    *)
(* infinities.  Arithmetic is exact, which is what the IEEE doubles of the *)
(* program give for fewer than 12 criteria.                                *)
(***************************************************************************)
EXTENDS Integers, Sequences, FiniteSets, TLC

(* ------------------------------ bounds -------------------------------- *)

MaxOpt == 2
MaxCrit == 3
MaxScore == 2
MaxScoreEntries == 1
MaxClock == 9
MaxSessions == 2
EntryMaxClock == 5
ScoringMaxOpt == 3
ScoringMaxEntries == 2

(* What the user types and what the language model answers. *)
Questions == {"q"}
OptionNames == {"a"}
SuggestedNames == {"b"}
OptionSuggestions == {<<"b">>}
CriterionNames == {"x"}
SuggestedWeight == 40
SuggestedCriteria == {[name |-> "y", weight |-> SuggestedWeight]}
CriterionSuggestions == {<<[name |-> "y", weight |-> SuggestedWeight]>>}
EditedWeights == {10}
ScoreVals == 0..MaxScore

(* ------------------------------ numbers ------------------------------- *)

RECURSIVE Fact(_)
Fact(n) == IF n <= 1 THEN 1 ELSE n * Fact(n - 1)

WScale == Fact(MaxCrit - 1)

Sign(n) == IF n > 0 THEN 1 ELSE IF n < 0 THEN -1 ELSE 0

(* a / b of two JavaScript numbers, kept as the pair; b >= 0 in this model *)
Div(a, b) == [num |-> a, den |-> b]

IsNaN(r) == r.den = 0 /\ r.num = 0

(* the sign of b - a for two quotients, 0 when b - a is NaN *)
SubSign(b, a) ==
  IF IsNaN(a) \/ IsNaN(b) THEN 0
  ELSE IF a.den = 0 /\ b.den = 0 THEN Sign(Sign(b.num) - Sign(a.num))
  ELSE IF b.den = 0 THEN Sign(b.num)
  ELSE IF a.den = 0 THEN -Sign(a.num)
  ELSE Sign(b.num * a.den - a.num * b.den)

(* ------------------------------ arrays -------------------------------- *)

Range(s) == {s[i] : i \in 1..Len(s)}

(* Array.prototype.sort with a comparator that is a total preorder, given  *)
(* as the table cmp[<<a, b>>] of its values on the elements of s: the sort *)
(* is stable (ECMAScript 2019), so an element moves behind exactly the     *)
(* elements that compare before it and the equal ones that preceded it     *)
StableSort(s, cmp) ==
  LET n == Len(s)
      pos(i) == 1 + Cardinality({j \in 1..n :
                       \/ cmp[<<s[j], s[i]>>] < 0
                       \/ cmp[<<s[j], s[i]>>] = 0 /\ j < i})
  IN [k \in 1..n |-> s[CHOOSE i \in 1..n : pos(i) = k]]

(* ------------------------------- state -------------------------------- *)

VARIABLES
  currentStep,          \* useState<Step>
  storedKey,            \* localStorage holds 'openai_api_key'
  decision,             \* useState<Decision>
  loadingSuggestions,
  suggestedOptions,
  suggestedCriteria,
  loadingPlan,
  orderingStep,
  orderedCriteria,
  currentPair,          \* <<>> is null
  now,                  \* the last value Date.now() returned
  pendingOptions,       \* suggest-options requests awaiting their response
  pendingCriteria,      \* suggest-criteria requests awaiting their response
  pendingPlan,          \* generate-plan requests awaiting their response
  sessions              \* decisions started so far (bounds the run)

vars == <<currentStep, storedKey, decision, loadingSuggestions,
          suggestedOptions, suggestedCriteria, loadingPlan, orderingStep,
          orderedCriteria, currentPair, now, pendingOptions, pendingCriteria,
          pendingPlan, sessions>>

ui == <<loadingSuggestions, suggestedOptions, suggestedCriteria, loadingPlan>>
ordering == <<orderingStep, orderedCriteria, currentPair>>
keys == <<storedKey>>
pending == <<pendingOptions, pendingCriteria, pendingPlan>>

Step == {"api-key", "decision", "options", "criteria", "ordering", "scoring",
         "results", "plan"}

(* implementationPlan?: <<>> is undefined, <<p>> the plan text p *)
emptyDecision ==
  [question |-> "", options |-> <<>>, criteria |-> <<>>, scores |-> <<>>,
   results |-> <<>>, implementationPlan |-> <<>>]

(* an array read past its end *)
undefined == [id |-> -1, name |-> "undefined", weight |-> 0, order |-> 0]

At(s, i) == IF i + 1 \in 1..Len(s) THEN s[i + 1] ELSE undefined

(* import.meta.env.VITE_OPENAI_API_KEY, a variable of the development      *)
(* environment: the build modelled is one without it                       *)
envApiKey == FALSE

getApiKey == envApiKey \/ storedKey

(* case 'ordering' of renderStep reads criterion.id of each member of      *)
(* currentPair: a member that is undefined makes the render throw, and     *)
(* React unmounts the application                                          *)
renderThrows ==
  /\ currentStep = "ordering"
  /\ orderingStep > 0
  /\ currentPair # <<>>
  /\ undefined \in Range(currentPair)

(* the step whose controls are on the screen *)
rendered(step) == currentStep = step /\ ~renderThrows

(* ----------------------- api key and question ------------------------- *)

Init ==
  /\ storedKey \in BOOLEAN
  /\ currentStep = IF getApiKey THEN "decision" ELSE "api-key"
  /\ decision = emptyDecision
  /\ loadingSuggestions = FALSE
  /\ suggestedOptions = <<>>
  /\ suggestedCriteria = <<>>
  /\ loadingPlan = FALSE
  /\ orderingStep = 0
  /\ orderedCriteria = <<>>
  /\ currentPair = <<>>
  /\ now = 0
  /\ pendingOptions = 0
  /\ pendingCriteria = 0
  /\ pendingPlan = <<>>
  /\ sessions = 1

handleApiKeySubmit ==
  /\ rendered("api-key")
  /\ storedKey' = TRUE
  /\ currentStep' = "decision"
  /\ UNCHANGED <<decision, ui, ordering, now, pending, sessions>>

handleLogout ==
  /\ rendered("decision")
  /\ storedKey' = FALSE
  /\ currentStep' = "api-key"
  /\ decision' = emptyDecision
  /\ UNCHANGED <<ui, ordering, now, pending, sessions>>

setQuestion(q) ==
  /\ rendered("decision")
  /\ decision.question # q
  /\ decision' = [decision EXCEPT !.question = q]
  /\ UNCHANGED <<currentStep, keys, ui, ordering, now, pending, sessions>>

(* handleDecisionSubmit without its test of the key *)
handleDecisionSubmitAlwaysRequests ==
  /\ rendered("decision")
  /\ decision.question # ""
  /\ currentStep' = "options"
  /\ loadingSuggestions' = TRUE
  /\ pendingOptions' = pendingOptions + 1
  /\ UNCHANGED <<keys, decision, suggestedOptions, suggestedCriteria,
                 loadingPlan, ordering, now, pendingCriteria, pendingPlan,
                 sessions>>

handleDecisionSubmit ==
  /\ rendered("decision")
  /\ decision.question # ""
  /\ currentStep' = "options"
  /\ IF getApiKey
       THEN /\ loadingSuggestions' = TRUE
            /\ pendingOptions' = pendingOptions + 1
       ELSE UNCHANGED <<loadingSuggestions, pendingOptions>>
  /\ UNCHANGED <<keys, decision, suggestedOptions, suggestedCriteria,
                 loadingPlan, ordering, now, pendingCriteria, pendingPlan,
                 sessions>>

suggestOptionsResponse(ok, options) ==
  /\ pendingOptions > 0
  /\ pendingOptions' = pendingOptions - 1
  /\ suggestedOptions' = IF ok THEN options ELSE suggestedOptions
  /\ loadingSuggestions' = FALSE
  /\ UNCHANGED <<currentStep, keys, decision, suggestedCriteria, loadingPlan,
                 ordering, now, pendingCriteria, pendingPlan, sessions>>

(* ------------------------------ options ------------------------------- *)

(* Date.now(): the clock has stood still or has advanced since it was last *)
(* read                                                                    *)
DateNow(t) == t \in {now, now + 1}

addOption(name, t) ==
  /\ rendered("options")
  /\ DateNow(t)
  /\ now' = t
  /\ decision' = [decision EXCEPT
       !.options = Append(@, [id |-> t, name |-> name])]
  /\ UNCHANGED <<currentStep, keys, ui, ordering, pending, sessions>>

addSuggestedOption(optionText, t) ==
  /\ rendered("options")
  /\ optionText \in Range(suggestedOptions)
  /\ DateNow(t)
  /\ now' = t
  /\ decision' = [decision EXCEPT
       !.options = Append(@, [id |-> t, name |-> optionText])]
  /\ suggestedOptions' = SelectSeq(suggestedOptions, LAMBDA opt : opt # optionText)
  /\ UNCHANGED <<currentStep, keys, loadingSuggestions, suggestedCriteria,
                 loadingPlan, ordering, pending, sessions>>

removeOption(id) ==
  /\ rendered("options")
  /\ \E opt \in Range(decision.options) : opt.id = id
  /\ decision' = [decision EXCEPT
       !.options = SelectSeq(@, LAMBDA opt : opt.id # id)]
  /\ UNCHANGED <<currentStep, keys, ui, ordering, now, pending, sessions>>

continueToCriteria ==
  /\ rendered("options")
  /\ Len(decision.options) >= 2
  /\ currentStep' = "criteria"
  /\ IF getApiKey
       THEN /\ loadingSuggestions' = TRUE
            /\ pendingCriteria' = pendingCriteria + 1
       ELSE UNCHANGED <<loadingSuggestions, pendingCriteria>>
  /\ UNCHANGED <<keys, decision, suggestedOptions, suggestedCriteria,
                 loadingPlan, ordering, now, pendingOptions, pendingPlan,
                 sessions>>

(* suggestCriteriaResponse returning the wizard to the criteria step *)
suggestCriteriaResponseSettingStep(ok, criteria) ==
  /\ pendingCriteria > 0
  /\ pendingCriteria' = pendingCriteria - 1
  /\ suggestedCriteria' = IF ok THEN criteria ELSE suggestedCriteria
  /\ loadingSuggestions' = FALSE
  /\ currentStep' = "criteria"
  /\ UNCHANGED <<keys, decision, suggestedOptions, loadingPlan,
                 ordering, now, pendingOptions, pendingPlan, sessions>>

suggestCriteriaResponse(ok, criteria) ==
  /\ pendingCriteria > 0
  /\ pendingCriteria' = pendingCriteria - 1
  /\ suggestedCriteria' = IF ok THEN criteria ELSE suggestedCriteria
  /\ loadingSuggestions' = FALSE
  /\ UNCHANGED <<currentStep, keys, decision, suggestedOptions, loadingPlan,
                 ordering, now, pendingOptions, pendingPlan, sessions>>

(* ------------------------------ criteria ------------------------------ *)

addCriterion(name, t) ==
  /\ rendered("criteria")
  /\ DateNow(t)
  /\ now' = t
  /\ decision' = [decision EXCEPT
       !.criteria = Append(@, [id |-> t, name |-> name, weight |-> 0,
                               order |-> Len(decision.criteria)])]
  /\ UNCHANGED <<currentStep, keys, ui, ordering, pending, sessions>>

addSuggestedCriterion(criterionData, t) ==
  /\ rendered("criteria")
  /\ criterionData \in Range(suggestedCriteria)
  /\ DateNow(t)
  /\ now' = t
  /\ decision' = [decision EXCEPT
       !.criteria = Append(@, [id |-> t, name |-> criterionData.name,
                               weight |-> criterionData.weight * WScale,
                               order |-> Len(decision.criteria)])]
  /\ suggestedCriteria' =
       SelectSeq(suggestedCriteria, LAMBDA crit : crit.name # criterionData.name)
  /\ UNCHANGED <<currentStep, keys, loadingSuggestions, suggestedOptions,
                 loadingPlan, ordering, pending, sessions>>

removeCriterion(id) ==
  /\ rendered("criteria")
  /\ \E crit \in Range(decision.criteria) : crit.id = id
  /\ decision' = [decision EXCEPT
       !.criteria = SelectSeq(@, LAMBDA crit : crit.id # id)]
  /\ UNCHANGED <<currentStep, keys, ui, ordering, now, pending, sessions>>

updateCriterionWeight(id, weight) ==
  /\ rendered("criteria")
  /\ \E crit \in Range(decision.criteria) : crit.id = id /\ crit.weight # weight * WScale
  /\ decision' = [decision EXCEPT
       !.criteria = [i \in 1..Len(@) |->
          IF @[i].id = id THEN [@[i] EXCEPT !.weight = weight * WScale] ELSE @[i]]]
  /\ UNCHANGED <<currentStep, keys, ui, ordering, now, pending, sessions>>

(* continueToOrdering without its test of the number of criteria *)
continueToOrderingUnguarded ==
  /\ rendered("criteria")
  /\ Len(decision.criteria) >= 1
  /\ currentStep' = "ordering"
  /\ UNCHANGED <<keys, decision, ui, ordering, now, pending, sessions>>

continueToOrdering ==
  /\ rendered("criteria")
  /\ Len(decision.criteria) >= 2
  /\ currentStep' = "ordering"
  /\ UNCHANGED <<keys, decision, ui, ordering, now, pending, sessions>>

(* ------------------------------ ordering ------------------------------ *)

startOrdering ==
  /\ rendered("ordering")
  /\ orderingStep = 0
  /\ orderedCriteria' = decision.criteria
  /\ orderingStep' = 1
  /\ currentPair' = IF Len(decision.criteria) >= 2
                      THEN <<decision.criteria[1], decision.criteria[2]>>
                      ELSE currentPair
  /\ UNCHANGED <<currentStep, keys, decision, ui, now, pending, sessions>>

(* orderedCriteria.map(crit => crit.id === chosen.id ? {...crit, order} : crit) *)
setOrder(criteria, id, order) ==
  [i \in 1..Len(criteria) |->
     IF criteria[i].id = id THEN [criteria[i] EXCEPT !.order = order]
     ELSE criteria[i]]

(* (a, b) => a.order - b.order *)
byOrder(a, b) == a.order - b.order

(* criteria.sort((a, b) => a.order - b.order) *)
sortByOrder(criteria) ==
  StableSort(criteria,
             [p \in Range(criteria) \X Range(criteria) |-> byOrder(p[1], p[2])])

(* rankWeight with the length as the divisor *)
rankWeightByLength(index, length) ==
  100 * WScale - index * ((100 * WScale) \div length)

(* NaN as a weight: every weight that is a number is 0 or more *)
NaN == -1

(* 100 - (index * (100 / (length - 1))), times WScale.  With length = 1    *)
(* the quotient 100 / 0 is Infinity, and index = 0 times Infinity is NaN   *)
rankWeight(index, length) ==
  IF length = 1 THEN NaN
  ELSE 100 * WScale - index * ((100 * WScale) \div (length - 1))

(* assignWeights keeping a weight that was given before: crit.weight || ... *)
assignWeightsKeepingGiven(finalOrdered) ==
  [i \in 1..Len(finalOrdered) |->
     [finalOrdered[i] EXCEPT !.weight =
        IF @ # 0 THEN @ ELSE rankWeight(i - 1, Len(finalOrdered))]]

assignWeights(finalOrdered) ==
  [i \in 1..Len(finalOrdered) |->
     [finalOrdered[i] EXCEPT !.weight = rankWeight(i - 1, Len(finalOrdered))]]

handleOrderingChoice(chosenCriterion) ==
  /\ rendered("ordering")
  /\ orderingStep > 0
  /\ currentPair # <<>>
  /\ chosenCriterion \in Range(currentPair)
  /\ LET currentIndex == orderingStep - 1
         nextIndex == orderingStep
         updatedCriteria == setOrder(orderedCriteria, chosenCriterion.id, currentIndex)
     IN IF orderingStep < Len(decision.criteria) - 1
          THEN /\ orderingStep' = orderingStep + 1
               /\ orderedCriteria' = updatedCriteria
               /\ currentPair' = <<At(updatedCriteria, nextIndex),
                                   At(updatedCriteria, nextIndex + 1)>>
               /\ UNCHANGED <<currentStep, decision>>
          ELSE /\ LET finalOrdered ==
                        sortByOrder(setOrder(updatedCriteria, chosenCriterion.id,
                                             currentIndex))
                  IN decision' = [decision EXCEPT
                                    !.criteria = assignWeights(finalOrdered)]
               /\ currentStep' = "scoring"
               /\ UNCHANGED ordering
  /\ UNCHANGED <<keys, ui, now, pending, sessions>>

(* ------------------------------ scoring ------------------------------- *)

(* findIndex matching the option alone *)
findIndexByOption(scores, optionId, criterionId) ==
  LET hits == {i \in 1..Len(scores) : scores[i].optionId = optionId}
  IN IF hits = {} THEN 0 ELSE CHOOSE i \in hits : \A j \in hits : i <= j

(* the least index of an entry of the pair, 0 when there is none *)
findIndex(scores, optionId, criterionId) ==
  LET hits == {i \in 1..Len(scores) :
                 scores[i].optionId = optionId /\ scores[i].criterionId = criterionId}
  IN IF hits = {} THEN 0 ELSE CHOOSE i \in hits : \A j \in hits : i <= j

(* getScore matching the option alone *)
getScoreAnyCriterion(d, optionId, criterionId) ==
  LET hits == {i \in 1..Len(d.scores) : d.scores[i].optionId = optionId}
  IN IF hits = {} THEN 0 ELSE d.scores[CHOOSE i \in hits : \A j \in hits : i <= j].score

(* scoreEntry?.score || 0 *)
getScore(d, optionId, criterionId) ==
  LET i == findIndex(d.scores, optionId, criterionId)
  IN IF i = 0 THEN 0 ELSE d.scores[i].score

updateScore(optionId, criterionId, score) ==
  /\ rendered("scoring")
  /\ \E opt \in Range(decision.options) : opt.id = optionId
  /\ \E crit \in Range(decision.criteria) : crit.id = criterionId
  /\ LET existingIndex == findIndex(decision.scores, optionId, criterionId)
         entry == [optionId |-> optionId, criterionId |-> criterionId,
                   score |-> score]
     IN decision' = [decision EXCEPT !.scores =
          IF existingIndex > 0 THEN [@ EXCEPT ![existingIndex] = entry]
          ELSE Append(@, entry)]
  /\ UNCHANGED <<currentStep, keys, ui, ordering, now, pending, sessions>>

RECURSIVE SumSeq(_)
SumSeq(s) == IF s = <<>> THEN 0 ELSE Head(s) + SumSeq(Tail(s))

(* the Result of one option, before the sort *)
resultOf(d, option) ==
  LET totalWeight == SumSeq([i \in 1..Len(d.criteria) |-> d.criteria[i].weight])
      totalScore == SumSeq([i \in 1..Len(d.criteria) |->
                      getScore(d, option.id, d.criteria[i].id)])
      weightedScore == SumSeq([i \in 1..Len(d.criteria) |->
                      getScore(d, option.id, d.criteria[i].id) * d.criteria[i].weight])
  IN [optionId |-> option.id, optionName |-> option.name,
      totalScore |-> Div(totalScore, Len(d.criteria)),
      weightedScore |-> Div(weightedScore, totalWeight)]

(* the comparator with its operands exchanged *)
byWeightedAsc(a, b) == SubSign(a.weightedScore, b.weightedScore)

(* (a, b) => b.weightedScore - a.weightedScore *)
byWeightedDesc(a, b) == SubSign(b.weightedScore, a.weightedScore)

sortedResults(d) ==
  LET results == [i \in 1..Len(d.options) |-> resultOf(d, d.options[i])]
  IN StableSort(results,
                [p \in Range(results) \X Range(results) |->
                   byWeightedDesc(p[1], p[2])])

calculateResults ==
  /\ rendered("scoring")
  /\ decision' = [decision EXCEPT !.results = sortedResults(decision)]
  /\ currentStep' = "results"
  /\ UNCHANGED <<keys, ui, ordering, now, pending, sessions>>

(* ------------------------- plan and reset ----------------------------- *)

planRequest(d) ==
  [decision |-> d.question,
   selected_option |-> d.results[1].optionName,
   criteria |-> [i \in 1..Len(d.criteria) |->
                   [name |-> d.criteria[i].name, weight |-> d.criteria[i].weight]]]

generateImplementationPlan ==
  /\ rendered("results")
  /\ ~loadingPlan
  /\ IF ~getApiKey \/ Len(decision.results) = 0
       THEN UNCHANGED <<loadingPlan, pendingPlan>>
       ELSE /\ loadingPlan' = TRUE
            /\ pendingPlan' = Append(pendingPlan, planRequest(decision))
  /\ UNCHANGED <<currentStep, keys, decision, loadingSuggestions,
                 suggestedOptions, suggestedCriteria, ordering, now,
                 pendingOptions, pendingCriteria, sessions>>

(* generatePlanResponse without the finally block: a failure leaves        *)
(* loadingPlan set                                                         *)
generatePlanResponseNoFinally(i, ok) ==
  /\ ~renderThrows
  /\ i \in 1..Len(pendingPlan)
  /\ pendingPlan' = [j \in 1..(Len(pendingPlan) - 1) |->
                       IF j < i THEN pendingPlan[j] ELSE pendingPlan[j + 1]]
  /\ IF ok
       THEN /\ decision' = [decision EXCEPT !.implementationPlan = <<pendingPlan[i]>>]
            /\ currentStep' = "plan"
            /\ loadingPlan' = FALSE
       ELSE UNCHANGED <<decision, currentStep, loadingPlan>>
  /\ UNCHANGED <<keys, loadingSuggestions, suggestedOptions, suggestedCriteria,
                 ordering, now, pendingOptions, pendingCriteria, sessions>>

(* the answer to the i-th request in flight: response.plan is the text     *)
(* written for that request, or the request fails                          *)
generatePlanResponse(i, ok) ==
  /\ ~renderThrows
  /\ i \in 1..Len(pendingPlan)
  /\ pendingPlan' = [j \in 1..(Len(pendingPlan) - 1) |->
                       IF j < i THEN pendingPlan[j] ELSE pendingPlan[j + 1]]
  /\ IF ok
       THEN /\ decision' = [decision EXCEPT !.implementationPlan = <<pendingPlan[i]>>]
            /\ currentStep' = "plan"
       ELSE UNCHANGED <<decision, currentStep>>
  /\ loadingPlan' = FALSE
  /\ UNCHANGED <<keys, loadingSuggestions, suggestedOptions, suggestedCriteria,
                 ordering, now, pendingOptions, pendingCriteria, sessions>>

(* resetDecision spreading the previous decision's results *)
resetDecisionKeepsResults ==
  /\ rendered("results") \/ rendered("plan")
  /\ decision' = [emptyDecision EXCEPT !.results = decision.results]
  /\ suggestedOptions' = <<>>
  /\ suggestedCriteria' = <<>>
  /\ currentStep' = "decision"
  /\ sessions' = sessions + 1
  /\ UNCHANGED <<keys, loadingSuggestions, loadingPlan, ordering, now, pending>>

resetDecision ==
  /\ rendered("results") \/ rendered("plan")
  /\ decision' = emptyDecision
  /\ suggestedOptions' = <<>>
  /\ suggestedCriteria' = <<>>
  /\ currentStep' = "decision"
  /\ sessions' = sessions + 1
  /\ UNCHANGED <<keys, loadingSuggestions, loadingPlan, ordering, now, pending>>

(* --------------------------- the wizard ------------------------------- *)

(* Two decisions in a row, with every response arriving at any time or     *)
(* failing.  The clock advances between two reads of Date.now(), and no    *)
(* option or criterion is removed or edited once entered.                  *)

optionIds == {opt.id : opt \in Range(decision.options)}
criterionIds == {crit.id : crit \in Range(decision.criteria)}

later == {t \in {now + 1} : t <= MaxClock}

Next ==
  \/ handleApiKeySubmit
  \/ handleLogout
  \/ \E q \in Questions \cup {""} : setQuestion(q)
  \/ handleDecisionSubmit
  \/ \E ok \in BOOLEAN, o \in OptionSuggestions : suggestOptionsResponse(ok, o)
  \/ \E name \in OptionNames, t \in later :
        Len(decision.options) < MaxOpt /\ addOption(name, t)
  \/ \E name \in SuggestedNames, t \in later :
        Len(decision.options) < MaxOpt /\ addSuggestedOption(name, t)
  \/ continueToCriteria
  \/ \E ok \in BOOLEAN, c \in CriterionSuggestions : suggestCriteriaResponse(ok, c)
  \/ \E name \in CriterionNames, t \in later :
        Len(decision.criteria) < MaxCrit /\ addCriterion(name, t)
  \/ \E c \in SuggestedCriteria, t \in later :
        Len(decision.criteria) < MaxCrit /\ addSuggestedCriterion(c, t)
  \/ continueToOrdering
  \/ startOrdering
  \/ \E c \in Range(currentPair) : handleOrderingChoice(c)
  \/ \E o \in optionIds, c \in criterionIds, v \in ScoreVals :
        /\ Len(decision.scores) < MaxScoreEntries \/ findIndex(decision.scores, o, c) > 0
        /\ updateScore(o, c, v)
  \/ calculateResults
  \/ generateImplementationPlan
  \/ \E i \in 1..Len(pendingPlan), ok \in BOOLEAN : generatePlanResponse(i, ok)
  \/ sessions < MaxSessions /\ resetDecision

Spec == Init /\ [][Next]_vars

(* ---------------------- entering the decision ------------------------- *)

(* One decision up to its results, with every way of entering options and  *)
(* criteria: two reads of Date.now() may give the same value, entries are  *)
(* removed, suggested ones are taken and weights are edited.               *)

sameOrLater == {t \in {now, now + 1} : t <= EntryMaxClock}

NextEntry ==
  \/ handleApiKeySubmit
  \/ \E q \in Questions : setQuestion(q)
  \/ handleDecisionSubmit
  \/ \E name \in OptionNames, t \in sameOrLater :
        Len(decision.options) < MaxOpt /\ addOption(name, t)
  \/ \E id \in optionIds : removeOption(id)
  \/ continueToCriteria
  \/ \E c \in CriterionSuggestions : suggestCriteriaResponse(TRUE, c)
  \/ \E name \in CriterionNames, t \in sameOrLater :
        Len(decision.criteria) < MaxCrit /\ addCriterion(name, t)
  \/ \E c \in SuggestedCriteria, t \in sameOrLater :
        Len(decision.criteria) < MaxCrit /\ addSuggestedCriterion(c, t)
  \/ \E id \in criterionIds : removeCriterion(id)
  \/ \E id \in criterionIds, w \in EditedWeights : updateCriterionWeight(id, w)
  \/ continueToOrdering
  \/ startOrdering
  \/ \E c \in Range(currentPair) : handleOrderingChoice(c)
  \/ calculateResults

SpecEntry == Init /\ [][NextEntry]_vars

(* ------------------------- the aggregator ----------------------------- *)

(* One decision with criteria entered in order, and every way of filling   *)
(* in up to ScoringMaxEntries scores for up to ScoringMaxOpt options.      *)

NextScoring ==
  \/ handleApiKeySubmit
  \/ \E q \in Questions : setQuestion(q)
  \/ handleDecisionSubmit
  \/ \E name \in OptionNames, t \in later :
        Len(decision.options) < ScoringMaxOpt /\ addOption(name, t)
  \/ continueToCriteria
  \/ \E name \in CriterionNames, t \in later :
        Len(decision.criteria) < MaxCrit /\ addCriterion(name, t)
  \/ continueToOrdering
  \/ startOrdering
  \/ currentPair # <<>> /\ handleOrderingChoice(currentPair[1])
  \/ \E o \in optionIds, c \in criterionIds, v \in ScoreVals :
        /\ Len(decision.scores) < ScoringMaxEntries \/ findIndex(decision.scores, o, c) > 0
        /\ updateScore(o, c, v)
  \/ calculateResults

SpecScoring == Init /\ [][NextScoring]_vars

(* --------------------------- the stored key --------------------------- *)

(* localStorage belongs to the origin, not to the window: another window   *)
(* of the application that runs handleLogout or handleApiKeySubmit removes *)
(* or sets the key this window reads with getApiKey                        *)
removeApiKey ==
  /\ storedKey
  /\ storedKey' = FALSE
  /\ UNCHANGED <<currentStep, decision, ui, ordering, now, pending, sessions>>

setApiKey ==
  /\ ~storedKey
  /\ storedKey' = TRUE
  /\ UNCHANGED <<currentStep, decision, ui, ordering, now, pending, sessions>>

(* One decision up to the request of its plan, the key being removed and   *)
(* set again at any time; the requests issued stay in flight.              *)
NextKeys ==
  \/ handleApiKeySubmit
  \/ handleLogout
  \/ removeApiKey
  \/ setApiKey
  \/ \E q \in Questions : setQuestion(q)
  \/ handleDecisionSubmit
  \/ \E name \in OptionNames, t \in later :
        Len(decision.options) < MaxOpt /\ addOption(name, t)
  \/ continueToCriteria
  \/ \E name \in CriterionNames, t \in later :
        Len(decision.criteria) < MaxCrit /\ addCriterion(name, t)
  \/ continueToOrdering
  \/ startOrdering
  \/ currentPair # <<>> /\ handleOrderingChoice(currentPair[1])
  \/ \E o \in optionIds, c \in criterionIds, v \in ScoreVals :
        /\ Len(decision.scores) < MaxScoreEntries \/ findIndex(decision.scores, o, c) > 0
        /\ updateScore(o, c, v)
  \/ calculateResults
  \/ generateImplementationPlan

SpecKeys == Init /\ [][NextKeys]_vars

(* ======================== the claims, checked ========================= *)

(* two quotients are defined and equal *)
QEq(a, b) == a.den > 0 /\ b.den > 0 /\ a.num * b.den = b.num * a.den

(* two quotients are defined and a >= b *)
QGe(a, b) == a.den > 0 /\ b.den > 0 /\ a.num * b.den >= b.num * a.den

(* the score the user gave, read off the score list without getScore *)
EntriesOf(o, c) ==
  {e \in Range(decision.scores) : e.optionId = o /\ e.criterionId = c}

GivenScore(o, c) ==
  IF EntriesOf(o, c) = {} THEN 0 ELSE (CHOOSE e \in EntriesOf(o, c) : TRUE).score

CriteriaIdx == 1..Len(decision.criteria)

ExpectedAverage(o) ==
  [num |-> SumSeq([i \in CriteriaIdx |-> GivenScore(o, decision.criteria[i].id)]),
   den |-> Len(decision.criteria)]

ExpectedWeighted(o) ==
  [num |-> SumSeq([i \in CriteriaIdx |->
             GivenScore(o, decision.criteria[i].id) * decision.criteria[i].weight]),
   den |-> SumSeq([i \in CriteriaIdx |-> decision.criteria[i].weight])]

Unscored(o) == \A e \in Range(decision.scores) : e.optionId # o

(* C1: after calculateResults every option has a result whose average is   *)
(* the sum of its scores over all criteria divided by the number of        *)
(* criteria, and whose weighted score is the sum of score times weight     *)
(* divided by the sum of the weights, a missing score counting as 0; an    *)
(* option with no score entry has average 0 and weighted score 0.          *)
C1_AverageAndWeighted ==
  currentStep = "results" =>
    \A opt \in Range(decision.options) :
      \E r \in Range(decision.results) :
        /\ r.optionId = opt.id
        /\ r.optionName = opt.name
        /\ QEq(r.totalScore, ExpectedAverage(opt.id))
        /\ QEq(r.weightedScore, ExpectedWeighted(opt.id))
        /\ Unscored(opt.id) => r.totalScore.num = 0 /\ r.weightedScore.num = 0

C1_Witness ==
  /\ currentStep = "results"
  /\ Len(decision.criteria) = 3
  /\ \E opt \in Range(decision.options) : Unscored(opt.id)
  /\ \E r \in Range(decision.results) :
       r.weightedScore.num > 0 /\ r.totalScore.num > 1
  /\ \E r \in Range(decision.results) :
       r.weightedScore.num = 0 /\ r.totalScore.num > 0

(* the place of an option in the option list *)
PlaceOf(id) == CHOOSE k \in 1..Len(decision.options) : decision.options[k].id = id

(* C2: the results hold exactly one entry per option, in descending order  *)
(* of weighted score, options of equal weighted score in the order in      *)
(* which they were entered.                                                *)
C2_SortedStable ==
  currentStep = "results" =>
    /\ Len(decision.results) = Len(decision.options)
    /\ \A opt \in Range(decision.options) :
         Cardinality({i \in 1..Len(decision.results) :
                        decision.results[i].optionId = opt.id}) = 1
    /\ \A i, j \in 1..Len(decision.results) :
         i < j =>
           /\ QGe(decision.results[i].weightedScore, decision.results[j].weightedScore)
           /\ QEq(decision.results[i].weightedScore, decision.results[j].weightedScore)
                => PlaceOf(decision.results[i].optionId)
                     < PlaceOf(decision.results[j].optionId)

C2_Witness ==
  /\ currentStep = "results"
  /\ Len(decision.results) = 3
  /\ decision.results[1].optionId = decision.options[3].id
  /\ QEq(decision.results[2].weightedScore, decision.results[3].weightedScore)
  /\ decision.results[2].totalScore # decision.results[3].totalScore

(* C9: the score list never holds two entries of one (option, criterion)   *)
(* pair, and updateScore(o, c, v) leaves the pair (o, c) with the score v  *)
(* and every other pair with the entry it had.                             *)
C9_OneEntryPerPair ==
  \A i, j \in 1..Len(decision.scores) :
    /\ decision.scores[i].optionId = decision.scores[j].optionId
    /\ decision.scores[i].criterionId = decision.scores[j].criterionId
    => i = j

C9_Step ==
  \A o \in optionIds, c \in criterionIds, v \in ScoreVals :
    updateScore(o, c, v) =>
      /\ \E e \in Range(decision'.scores) :
           e.optionId = o /\ e.criterionId = c /\ e.score = v
      /\ \A e \in Range(decision'.scores) :
           (e.optionId = o /\ e.criterionId = c) \/ e \in Range(decision.scores)
      /\ \A e \in Range(decision.scores) :
           (e.optionId = o /\ e.criterionId = c) \/ e \in Range(decision'.scores)

C9_LastWriteWins == []C9_OneEntryPerPair /\ [][C9_Step]_vars

C9_Witness ==
  /\ currentStep = "scoring"
  /\ Len(decision.scores) = 2
  /\ \E e \in Range(decision.scores) : e.score = 0
  /\ \E e \in Range(decision.scores) : e.score = 2

(* the places of the criteria of an id in a criterion list *)
PlacesIn(criteria, id) == {i \in 1..Len(criteria) : criteria[i].id = id}

(* C3: the criterion the user picks in a comparison is ranked before the   *)
(* criterion it was picked over in the final list, and its weight is at    *)
(* least as high.  Stated of the comparison whose answer completes the     *)
(* prioritization, which the claim's "every comparison" includes.          *)
C3_ChosenRankedFirst ==
  [][\A chosen \in Range(currentPair), other \in Range(currentPair) :
       (/\ chosen.id # other.id
        /\ handleOrderingChoice(chosen)
        /\ currentStep' = "scoring")
       => \A i \in PlacesIn(decision'.criteria, chosen.id),
             j \in PlacesIn(decision'.criteria, other.id) :
            /\ i < j
            /\ decision'.criteria[i].weight >= decision'.criteria[j].weight]_vars

(* C4: when prioritization completes, the N >= 2 criteria carry N distinct *)
(* order values, all within 0..N-1.                                        *)
C4_DistinctOrders ==
  currentStep = "scoring" /\ Len(decision.criteria) >= 2 =>
    /\ \A i \in CriteriaIdx : decision.criteria[i].order \in 0..(Len(decision.criteria) - 1)
    /\ \A i, j \in CriteriaIdx :
         i # j => decision.criteria[i].order # decision.criteria[j].order

C6_AdjacentPairs ==
  LET N == Len(decision.criteria) IN
  /\ (currentStep = "ordering" /\ orderingStep > 0) =>
       /\ orderingStep \in 1..(N - 1)
       /\ Len(currentPair) = 2
       /\ currentPair[1].id = decision.criteria[orderingStep].id
       /\ currentPair[2].id = decision.criteria[orderingStep + 1].id
  /\ currentStep = "scoring" => orderingStep = N - 1

(* every option and criterion of the decision after a step was in it       *)
(* before the step or is entered by the step, under the id Date.now()      *)
(* gave it; every score and result is of such an option                    *)
NothingComesBack ==
  /\ \A opt \in Range(decision'.options) :
       opt \in Range(decision.options) \/ (opt.id = now' /\ now' > now)
  /\ \A crit \in Range(decision'.criteria) :
       \/ \E old \in Range(decision.criteria) : old.id = crit.id /\ old.name = crit.name
       \/ crit.id = now' /\ now' > now
  /\ \A e \in Range(decision'.scores) :
       /\ \E opt \in Range(decision.options) : opt.id = e.optionId
       /\ \E crit \in Range(decision.criteria) : crit.id = e.criterionId
  /\ \A r \in Range(decision'.results) :
       \E opt \in Range(decision.options) : opt.id = r.optionId

(* C7: resetDecision empties options, criteria, scores and results in one  *)
(* step and returns to the 'decision' step, and nothing that was in the    *)
(* decision before the reset is in it again after any later step.          *)
C7_ResetIsFinal ==
  [][/\ resetDecision =>
          /\ decision'.options = <<>> /\ decision'.criteria = <<>>
          /\ decision'.scores = <<>> /\ decision'.results = <<>>
          /\ currentStep' = "decision"
     /\ NothingComesBack]_vars

(* C8: the results are empty unless calculateResults has run since the     *)
(* last reset or logout; they are then the aggregation of the options,     *)
(* scores and weights of the decision, and only a calculation, a reset or  *)
(* a logout changes them.                                                  *)
C8_Snapshot ==
  decision.results # <<>> =>
    /\ currentStep \in {"results", "plan"}
    /\ Len(decision.results) = Len(decision.options)
    /\ \A opt \in Range(decision.options) :
         \E r \in Range(decision.results) :
           /\ r.optionId = opt.id
           /\ QEq(r.totalScore, ExpectedAverage(opt.id))
           /\ QEq(r.weightedScore, ExpectedWeighted(opt.id))

C8_Step ==
  decision'.results # decision.results =>
    \/ currentStep = "scoring" /\ currentStep' = "results" /\ decision'.results # <<>>
    \/ currentStep \in {"results", "plan"} /\ currentStep' = "decision"
         /\ decision'.results = <<>>
    \/ currentStep = "decision" /\ currentStep' = "api-key" /\ decision'.results = <<>>

C8_ResultsAreASnapshot == []C8_Snapshot /\ [][C8_Step]_vars

C8_Witness ==
  /\ currentStep = "plan"
  /\ sessions = 2
  /\ decision.results # <<>>
  /\ decision.implementationPlan # <<>>
  /\ decision.results[1].weightedScore.num > 0

(* C10: at the 'plan' step the stored plan answers a request made for the  *)
(* option that is first in the results.                                    *)
C10_PlanOfTopOption ==
  currentStep = "plan" =>
    /\ decision.results # <<>>
    /\ decision.implementationPlan # <<>>
    /\ decision.implementationPlan[1].selected_option = decision.results[1].optionName
    /\ decision.implementationPlan[1].decision = decision.question

(* the decision d with every criterion weight set to 0 *)
ZeroWeighted(d) ==
  [d EXCEPT !.criteria = [i \in 1..Len(@) |-> [@[i] EXCEPT !.weight = 0]]]

TotalWeight == SumSeq([i \in CriteriaIdx |-> decision.criteria[i].weight])

(* C12: at the 'ordering', 'scoring' and 'results' steps the decision      *)
(* holds at least 2 criteria and at least 2 options.                       *)
C12_AtLeastTwo ==
  currentStep \in {"ordering", "scoring", "results"} =>
    /\ Len(decision.criteria) >= 2
    /\ Len(decision.options) >= 2

C12_Witness ==
  /\ currentStep = "results"
  /\ Len(decision.criteria) = 2
  /\ Len(decision.options) = 2
  /\ \E i \in CriteriaIdx : decision.criteria[i].order = 2
  /\ decision.results # <<>>

(* C13: no two options of the decision share an id and no two criteria of  *)
(* the decision share an id.                                               *)
C13_UniqueIds ==
  /\ \A i, j \in 1..Len(decision.options) :
       i # j => decision.options[i].id # decision.options[j].id
  /\ \A i, j \in CriteriaIdx :
       i # j => decision.criteria[i].id # decision.criteria[j].id

EnteredInOrder ==
  \A i \in CriteriaIdx : decision.criteria[i].order = i - 1

(* C15: when the criteria carry the orders of their entry positions, the   *)
(* prioritization ends with the criteria in their entry order and with the *)
(* weights of their entry positions, whichever criterion was picked in     *)
(* each comparison.                                                        *)
C15_ChoicesDoNotMatter ==
  [][\A chosen \in Range(currentPair) :
       (/\ EnteredInOrder
        /\ handleOrderingChoice(chosen)
        /\ currentStep' = "scoring")
       => /\ Len(decision'.criteria) = Len(decision.criteria)
          /\ \A i \in CriteriaIdx :
               /\ decision'.criteria[i].id = decision.criteria[i].id
               /\ decision'.criteria[i].name = decision.criteria[i].name
               /\ decision'.criteria[i].weight
                    = rankWeight(i - 1, Len(decision.criteria))]_vars

(* the order the k-th comparison leaves on a criterion of the working      *)
(* array: k - 1 on the chosen one, its own on every other                  *)
OrderAfterChoice(crit, chosen) ==
  IF crit = chosen THEN orderingStep - 1 ELSE crit.order

(* C16: the k-th comparison sets the order of the chosen criterion to      *)
(* k - 1 and leaves the order of every other criterion and the id and name *)
(* of every criterion as they were; before the last comparison the working *)
(* array keeps its positions.                                              *)
C16_Step ==
  \A chosen \in Range(currentPair) :
    handleOrderingChoice(chosen) =>
      IF currentStep' = "ordering"
        THEN /\ Len(orderedCriteria') = Len(orderedCriteria)
             /\ \A i \in 1..Len(orderedCriteria) :
                  /\ orderedCriteria'[i].id = orderedCriteria[i].id
                  /\ orderedCriteria'[i].name = orderedCriteria[i].name
                  /\ orderedCriteria'[i].order
                       = OrderAfterChoice(orderedCriteria[i], chosen)
        ELSE /\ Len(decision'.criteria) = Len(orderedCriteria)
             /\ \A i \in 1..Len(orderedCriteria) :
                  \E j \in 1..Len(decision'.criteria) :
                    /\ decision'.criteria[j].id = orderedCriteria[i].id
                    /\ decision'.criteria[j].name = orderedCriteria[i].name
                    /\ decision'.criteria[j].order
                         = OrderAfterChoice(orderedCriteria[i], chosen)

C16_OnlyTheChosenOrder == [][C16_Step]_vars

(* a comparison is on the screen *)
PairPresented ==
  currentStep = "ordering" /\ orderingStep > 0 /\ currentPair # <<>>

C17_PairOfTheDecision ==
  PairPresented =>
    /\ Len(currentPair) = 2
    /\ currentPair[1].id # currentPair[2].id
    /\ currentPair[1].id \in criterionIds
    /\ currentPair[2].id \in criterionIds
    /\ orderingStep \in 1..(Len(decision.criteria) - 1)

C17_Completion ==
  (currentStep = "ordering" /\ currentStep' = "scoring") =>
    /\ Len(decision'.criteria) = Len(decision.criteria)
    /\ {crit.id : crit \in Range(decision'.criteria)} = criterionIds

(* C17: while a comparison is presented its pair is of two distinct        *)
(* criteria of the current decision and the comparison counter lies in     *)
(* 1..N-1, and the prioritization ends with a permutation of the criteria  *)
(* it began with, in a first decision and in one started after a reset.    *)
C17_OrderingOfTheCurrentDecision ==
  []C17_PairOfTheDecision /\ [][C17_Completion]_vars

(* the wizard's steps in their order *)
StepOrder ==
  <<"api-key", "decision", "options", "criteria", "ordering", "scoring",
    "results", "plan">>

OneStepForward(from, to) ==
  \E i \in 1..(Len(StepOrder) - 1) : StepOrder[i] = from /\ StepOrder[i + 1] = to

(* C18: the step changes only to the step that follows it, or by           *)
(* resetDecision to 'decision', or by handleLogout to 'api-key'.           *)
C18_OneStepAtATime ==
  [][currentStep' # currentStep =>
       \/ OneStepForward(currentStep, currentStep')
       \/ resetDecision
       \/ handleLogout]_vars

(* a suggest-options or suggest-criteria response arrives in this step *)
SuggestionArrives ==
  pendingOptions' < pendingOptions \/ pendingCriteria' < pendingCriteria

(* C19: the arrival of a suggestion response, successful or failed, at     *)
(* any step of the wizard, changes only the suggestion lists and the       *)
(* loading flag; an entry with a suggested content is appended to the      *)
(* options or criteria only by addSuggestedOption or                       *)
(* addSuggestedCriterion.                                                  *)
C19_Step ==
  /\ SuggestionArrives =>
       /\ decision' = decision
       /\ currentStep' = currentStep
       /\ UNCHANGED <<keys, loadingPlan, ordering, now, pendingPlan>>
  /\ (\E e \in Range(decision'.options) :
        e.name \in SuggestedNames /\ decision'.options = Append(decision.options, e))
       => \E name \in Range(suggestedOptions) :
            addSuggestedOption(name, now')
  /\ (\E e \in Range(decision'.criteria) :
        /\ e.name \in {c.name : c \in SuggestedCriteria}
        /\ decision'.criteria = Append(decision.criteria, e))
       => \E c \in Range(suggestedCriteria) :
            addSuggestedCriterion(c, now')

C19_SuggestionsOnlySuggest == [][C19_Step]_vars

C19_Witness ==
  /\ sessions = 2
  /\ currentStep = "options"
  /\ decision.options = <<>>
  /\ suggestedCriteria # <<>>
  /\ pendingCriteria = 0

(* C20: loadingSuggestions is true exactly while a suggest-options or a    *)
(* suggest-criteria request is in flight.                                  *)
C20_LoadingWhileInFlight ==
  loadingSuggestions <=> (pendingOptions + pendingCriteria > 0)

(* a criterion list with the weights given before prioritization erased *)
EraseWeights(criteria) ==
  [i \in 1..Len(criteria) |-> [criteria[i] EXCEPT !.weight = 0]]

(* C21: the weights the criteria carry before prioritization (of a         *)
(* suggested criterion, or edited) have no effect: the prioritization ends *)
(* with the criteria it would end with had every such weight been 0, and   *)
(* the results are those computed from the weights of the ranks alone.     *)
C21_Step ==
  /\ \A chosen \in Range(currentPair) :
       (handleOrderingChoice(chosen) /\ currentStep' = "scoring") =>
         decision'.criteria =
           assignWeights(sortByOrder(setOrder(EraseWeights(orderedCriteria),
                                              chosen.id, orderingStep - 1)))
  /\ (currentStep = "scoring" /\ currentStep' = "results") =>
       decision'.results =
         sortedResults([decision EXCEPT
                          !.criteria = assignWeights(EraseWeights(@))])

C22_TotalWeightPositive ==
  /\ currentStep = "scoring" =>
       /\ Len(decision.criteria) >= 2
       /\ TotalWeight = 50 * Len(decision.criteria) * WScale
       /\ TotalWeight > 0
  /\ \A r \in Range(decision.results) :
       r.weightedScore.den = 50 * Len(decision.criteria) * WScale

C22_Witness ==
  /\ currentStep = "results"
  /\ sessions = 2
  /\ Len(decision.criteria) = 3
  /\ decision.results # <<>>
  /\ decision.results[1].weightedScore.den = 150 * WScale
  /\ decision.results[1].weightedScore.num > 0

(* C23: a failed generate-plan request leaves the step, the results and    *)
(* the stored plan as they were; after a failed and after a successful     *)
(* response loadingPlan is false, and it is true only while a request is   *)
(* in flight, so the plan can be requested again.                          *)
C23_Step ==
  /\ \A i \in 1..Len(pendingPlan) :
       /\ generatePlanResponse(i, FALSE) =>
            /\ currentStep' = currentStep
            /\ decision' = decision
            /\ ~loadingPlan'
       /\ generatePlanResponse(i, TRUE) =>
            /\ decision'.results = decision.results
            /\ ~loadingPlan'
  /\ Len(pendingPlan') < Len(pendingPlan) => ~loadingPlan'

C23_FailureAbsorbed ==
  [](loadingPlan <=> pendingPlan # <<>>) /\ [][C23_Step]_vars

C23_Witness ==
  /\ currentStep = "plan"
  /\ sessions = 1
  /\ ~loadingPlan
  /\ pendingPlan = <<>>
  /\ decision.results # <<>>
  /\ decision.implementationPlan # <<>>

(* a suggest-options, suggest-criteria or generate-plan request is issued  *)
(* in this step                                                            *)
RequestIssued ==
  \/ pendingOptions' > pendingOptions
  \/ pendingCriteria' > pendingCriteria
  \/ Len(pendingPlan') > Len(pendingPlan)

(* C24: no request is issued while no key is available: without a key     *)
(* handleDecisionSubmit and continueToCriteria advance the wizard, issue   *)
(* no request and do not set loadingSuggestions, and                       *)
(* generateImplementationPlan changes nothing, as it does when the results *)
(* are empty.                                                              *)
C24_Step ==
  /\ RequestIssued => getApiKey
  /\ (~getApiKey /\ handleDecisionSubmit) =>
       /\ currentStep' = "options"
       /\ UNCHANGED <<loadingSuggestions, pending, decision>>
  /\ (~getApiKey /\ continueToCriteria) =>
       /\ currentStep' = "criteria"
       /\ UNCHANGED <<loadingSuggestions, pending, decision>>
  /\ ((~getApiKey \/ decision.results = <<>>) /\ generateImplementationPlan) =>
       UNCHANGED vars

C24_NoRequestWithoutKey == [][C24_Step]_vars

C24_Witness ==
  /\ currentStep = "results"
  /\ ~getApiKey
  /\ pendingOptions = 0
  /\ pendingCriteria = 0
  /\ pendingPlan = <<>>
  /\ ~loadingSuggestions
  /\ ~loadingPlan
  /\ decision.results # <<>>
====
